---- MODULE Spec2Model ----
(***************************************************************************)
(* rag_cli: the session cache (cache.py), the indexing orchestrator        *)
(* (rag.py: index_path_or_glob, extend_path_or_glob), the cost gate        *)
(* (files.py: show_cost_and_confirm) and the command dispatcher (cli.py:   *)
(* main), run as one process executing one command at a time.              *)
(*                                                                         *)
(* The file system is one directory /home/u/docs (the working directory    *)
(* is /home/u, which is also the home directory) that may hold three       *)
(* regular files.  Remote calls and the user's answers are inputs.         *)
(***************************************************************************)
EXTENDS Naturals, Integers, Sequences, FiniteSets, TLC

\* ------------------------------------------------------------------ bounds
\* Number of vector stores the remote service issues in a run.
MaxStores == 2

\* Number of commands run one after the other.
MaxCmds == 4

\* Number of question/answer rounds a chat keeps in its transcript.
MaxRounds == 2

\* ------------------------------------------------------- sentinels / names
None == "None"
NotFound == "NotFound"
NoAnswer == "<no prompt>"

\* Identifiers the remote service issues, in order of creation.
VsNames == << "vs_1", "vs_2", "vs_3", "vs_4" >>

VsName(i) == VsNames[i]

\* ------------------------------------------------------------ file system
\* Regular files that may appear in the directory, by absolute path.
AllFiles == { "/home/u/docs/a.md", "/home/u/docs/B.ORG" }

\* The regular file that is in the directory from the start.
InitialFiles == { "/home/u/docs/c.png" }

\* Every path string of the model in Python's string order (sorted()).
PathOrder ==
  << "/home/u/docs/B.ORG", "/home/u/docs/a.md", "/home/u/docs/c.png",
     "/home/u/docs/n.org", "/home/u/vs_notes.md",
     "docs/B.ORG", "docs/a.md", "docs/c.png", "vs_notes.md" >>

\* The environment of the process (HOME = /home/u); the value of LINK is
\* the text $DOCS itself.
Environ == ("DOCS" :> "/home/u/docs") @@ ("LINK" :> "$DOCS")

\* The variable a string of the model refers to, None when it has none.
VarOf(x) ==
  CASE x = "$DOCS" -> "DOCS"
    [] x = "$LINK" -> "LINK"
    [] x = "$UNSET/x" -> "UNSET"
    [] OTHER -> None

\* os.path.expandvars: one pass over the string; a reference to a variable
\* that is set is replaced by its value, which is not scanned again, and a
\* reference to an unset variable is left as it is.
expandvars(x) == IF VarOf(x) \in DOMAIN Environ THEN Environ[VarOf(x)] ELSE x

\* os.path.expanduser
expanduser(x) == IF x = "~/docs" THEN "/home/u/docs" ELSE x

\* os.path.expanduser(os.path.expandvars(x)) with HOME = /home/u.
Expand(x) == expanduser(expandvars(x))

\* os.path.isdir
IsDir(x) == x \in { "docs", "/home/u/docs" }

\* os.path.abspath with the working directory /home/u.
Abspath(p) ==
  CASE p = "docs" -> "/home/u/docs"
    [] p = "docs/a.md" -> "/home/u/docs/a.md"
    [] p = "docs/B.ORG" -> "/home/u/docs/B.ORG"
    [] p = "docs/c.png" -> "/home/u/docs/c.png"
    [] p = "vs_notes.md" -> "/home/u/vs_notes.md"
    [] OTHER -> p

\* The path glob() reports for a file matched through a relative pattern.
RelOf(f) ==
  CASE f = "/home/u/docs/a.md" -> "docs/a.md"
    [] f = "/home/u/docs/B.ORG" -> "docs/B.ORG"
    [] f = "/home/u/docs/c.png" -> "docs/c.png"

\* os.path.splitext(p)[1]
Ext(p) ==
  CASE p \in { "/home/u/docs/a.md", "docs/a.md" } -> ".md"
    [] p \in { "/home/u/vs_notes.md", "vs_notes.md" } -> ".md"
    [] p \in { "/home/u/docs/B.ORG", "docs/B.ORG" } -> ".ORG"
    [] p \in { "/home/u/docs/c.png", "docs/c.png" } -> ".png"
    [] p = "/home/u/docs/n.org" -> ".org"
    [] OTHER -> ""

\* str.lower() on the extensions of the model.
Lower(s) == IF s = ".ORG" THEN ".org" ELSE s

SUPPORTED_EXTENSIONS ==
  { ".pdf", ".txt", ".md", ".rtf", ".docx", ".pptx", ".csv", ".tsv",
    ".html", ".htm", ".json", ".xml", ".org" }

\* glob(pattern, recursive=True) restricted to regular files: a directory is
\* searched through its absolute path, a relative pattern yields relative paths.
Glob(expanded, d) ==
  IF IsDir(expanded)
    THEN d
    ELSE IF expanded = "docs/*.md"
           THEN { RelOf(f) : f \in { g \in d : Ext(g) = ".md" } }
           ELSE IF expanded = "vs_notes.md"
                  THEN { "vs_notes.md" }
                  ELSE {}

ToSet(s) == { s[i] : i \in DOMAIN s }

\* sorted(set) of paths
Sorted(S) == SelectSeq(PathOrder, LAMBDA x : x \in S)

\* ------------------------------------------------------------ cache.py
Upsert(m, k, v) == [ x \in (DOMAIN m) \cup {k} |-> IF x = k THEN v ELSE m[x] ]

Get(m, k, dflt) == IF k \in DOMAIN m THEN m[k] ELSE dflt

empty_cache == [ sessions |-> << >>, files_per_vs |-> << >>, last |-> None ]

MissingFile == [ kind |-> "missing" ]

\* A file that json.loads rejects.
InvalidFile == [ kind |-> "invalid" ]

\* JSON values that are not objects.
NonDictValues == { "list", "string", "number" }

\* k.startswith("_") on the keys of the model.
StartsWithUnderscore(k) == k \in { "_last", "_drafts/*.md" }

\* Faulty variant: a file that does not parse raises as well.
load_raises_on_invalid(f) == f.kind \in { "json", "invalid" }

\* raw.items() on a value that is not a dict raises AttributeError, which
\* load_cache does not catch.
load_raises(f) == f.kind = "json"

\* The file kinds: "missing", "invalid", "json" (a value that is not an
\* object), "legacy" (an object without sessions and files_per_vs, in flat)
\* and "doc" (the current format).  Defined where load_raises is false.
load_cache(f) ==
  CASE f.kind \in { "missing", "invalid" } -> empty_cache
    [] f.kind = "doc" ->
         [ sessions |-> f.sessions, files_per_vs |-> f.files_per_vs, last |-> f.last ]
    [] f.kind = "legacy" ->
         [ sessions |-> [ k \in { x \in DOMAIN f.flat : ~StartsWithUnderscore(x) }
                            |-> f.flat[k] ],
           files_per_vs |-> << >>,
           last |-> Get(f.flat, "_last", None) ]

save_cache(c) ==
  [ kind |-> "doc", sessions |-> c.sessions, files_per_vs |-> c.files_per_vs,
    last |-> c.last ]

canonical_key(path_or_glob) ==
  LET expanded == Expand(path_or_glob)
  IN IF IsDir(expanded) THEN Abspath(expanded) ELSE expanded

\* Faulty variant: the session is stored but the last-used pointer is not.
save_vector_store_id_for_key_no_last(f, key, vs_id) ==
  LET cache == load_cache(f)
  IN save_cache([ cache EXCEPT !.sessions = Upsert(cache.sessions, key, vs_id) ])

\* Faulty variant: the document written holds the new session only.
save_vector_store_id_for_key_alone(f, key, vs_id) ==
  LET cache == load_cache(f)
  IN save_cache([ cache EXCEPT !.sessions = (key :> vs_id), !.last = vs_id ])

\* Faulty variant: a key that is already cached keeps its store.
save_vector_store_id_for_key_first_wins(f, key, vs_id) ==
  LET cache == load_cache(f)
  IN save_cache([ cache EXCEPT
       !.sessions = IF key \in DOMAIN cache.sessions
                      THEN cache.sessions ELSE Upsert(cache.sessions, key, vs_id),
       !.last = vs_id ])

\* Faulty variant: the last-used pointer is set once and then kept.
save_vector_store_id_for_key_stale_last(f, key, vs_id) ==
  LET cache == load_cache(f)
  IN save_cache([ cache EXCEPT !.sessions = Upsert(cache.sessions, key, vs_id),
                               !.last = IF cache.last = None THEN vs_id ELSE cache.last ])

save_vector_store_id_for_key(f, key, vs_id) ==
  LET cache == load_cache(f)
  IN save_cache([ cache EXCEPT !.sessions = Upsert(cache.sessions, key, vs_id),
                               !.last = vs_id ])

load_vector_store_id_for_key(f, key) == Get(load_cache(f).sessions, key, None)

load_last_vector_store_id(f) == load_cache(f).last

\* Faulty variant: the new paths replace the recorded ones instead of joining them.
add_indexed_files_overwrite(f, vs_id, files) ==
  LET cache == load_cache(f)
      new_abs == { Abspath(p) : p \in ToSet(files) }
  IN save_cache([ cache EXCEPT !.files_per_vs =
                                 Upsert(cache.files_per_vs, vs_id, Sorted(new_abs)) ])

\* Faulty variant: the paths are recorded as given.
add_indexed_files_relative(f, vs_id, files) ==
  LET cache == load_cache(f)
      existing == ToSet(Get(cache.files_per_vs, vs_id, << >>))
  IN save_cache([ cache EXCEPT !.files_per_vs =
                    Upsert(cache.files_per_vs, vs_id, Sorted(existing \cup ToSet(files))) ])

\* Faulty variant: the paths are filed under the last-used store.
add_indexed_files_misfiled(f, vs_id, files) ==
  LET cache == load_cache(f)
      existing == ToSet(Get(cache.files_per_vs, cache.last, << >>))
      new_abs == { Abspath(p) : p \in ToSet(files) }
  IN save_cache([ cache EXCEPT !.files_per_vs =
                    Upsert(cache.files_per_vs, cache.last, Sorted(existing \cup new_abs)) ])

add_indexed_files(f, vs_id, files) ==
  LET cache == load_cache(f)
      existing == ToSet(Get(cache.files_per_vs, vs_id, << >>))
      new_abs == { Abspath(p) : p \in ToSet(files) }
      combined == Sorted(existing \cup new_abs)
  IN save_cache([ cache EXCEPT !.files_per_vs = Upsert(cache.files_per_vs, vs_id, combined) ])

\* Faulty variant: the recorded paths are looked up under the last-used store.
get_indexed_files_of_last(f, vs_id) ==
  ToSet(Get(load_cache(f).files_per_vs, "last", << >>))

get_indexed_files(f, vs_id) == ToSet(Get(load_cache(f).files_per_vs, vs_id, << >>))

\* arg.startswith("vs_") on the strings of the model.
StartsWithVs(arg) == arg \in ToSet(VsNames) \cup { "vs_notes.md" }

\* list_vector_stores: the keys printed with the "(last used)" marker; nothing
\* is printed for a cache without sessions.
list_vector_stores(f) ==
  LET cache == load_cache(f)
  IN IF DOMAIN cache.sessions = {}
       THEN {}
       ELSE { key \in DOMAIN cache.sessions : cache.sessions[key] = cache.last }

\* Faulty variant: an explicit store identifier is looked up like a path.
resolve_vector_store_id_no_passthrough(f, arg) ==
  IF arg = "auto"
    THEN LET vs == load_last_vector_store_id(f)
         IN IF vs = None THEN NotFound ELSE vs
    ELSE LET vs == load_vector_store_id_for_key(f, canonical_key(arg))
         IN IF vs = None THEN NotFound ELSE vs

resolve_vector_store_id(f, arg) ==
  IF arg = "auto"
    THEN LET vs == load_last_vector_store_id(f)
         IN IF vs = None THEN NotFound ELSE vs
    ELSE IF StartsWithVs(arg)
           THEN arg
           ELSE LET vs == load_vector_store_id_for_key(f, canonical_key(arg))
                IN IF vs = None THEN NotFound ELSE vs

\* ------------------------------------------------------------ rag.py
\* The lists glob() can return for the pattern: the matches in any order.
glob_results(path_or_glob, d) ==
  LET matched == Glob(Expand(path_or_glob), d)
  IN { s \in [ 1..Cardinality(matched) -> matched ] :
         \A i, j \in DOMAIN s : i # j => s[i] # s[j] }

\* The for loop of _collect_supported_files over the list glob returned.
RECURSIVE collect_loop(_, _)
collect_loop(paths, acc) ==
  IF paths = << >>
    THEN acc
    ELSE LET p == Head(paths)
         IN collect_loop(Tail(paths),
              IF Lower(Ext(p)) \in SUPPORTED_EXTENSIONS
                THEN [ acc EXCEPT !.file_paths = Append(@, Abspath(p)) ]
                ELSE [ acc EXCEPT !.skipped = Append(@, p) ])

\* Faulty variant: the supported paths stay in the order they were found.
collect_finish_as_found(fps) == fps

\* file_paths = sorted(set(file_paths))
collect_finish(fps) == Sorted(ToSet(fps))

collect_supported_files(paths) ==
  LET r == collect_loop(paths, [ file_paths |-> << >>, skipped |-> << >> ])
  IN [ file_paths |-> collect_finish(r.file_paths), skipped |-> r.skipped ]

\* Faulty variant: the empty collection is not checked for.
after_collect_unchecked(fps) == "collected"

\* if not file_paths: raise RuntimeError(...) (rag.py 55-59, 120-124)
after_collect(fps) == IF fps = << >> THEN "no_supported_files" ELSE "collected"

\* Faulty variant: the paths are compared in their relative form.
new_files_relative(fps, already) == SelectSeq(fps, LAMBDA p : RelOf(p) \notin already)

\* Faulty variant: nothing is filtered out.
new_files_unfiltered(fps, already) == fps

\* extend_path_or_glob: new_files = [p for p in file_paths if p not in already]
new_files(fps, already) == SelectSeq(fps, LAMBDA p : p \notin already)


\* ------------------------------------------------------------ files.py
\* The answers a user may type at the cost prompt.
Answers == { "y", "yes", "s", "sim", " Y ", "n", "" }

\* input(...).strip().lower()
Normalize(ans) ==
  CASE ans = " Y " -> "y"
    [] OTHER -> ans

\* Faulty variant: everything but an explicit no goes on.
Confirms_unless_no(ans) == Normalize(ans) \notin { "n", "no" }

\* show_cost_and_confirm returns (instead of raising SystemExit) iff this holds.
Confirms(ans) == Normalize(ans) \in { "y", "yes", "s", "sim" }

\* Faulty variant: a declined prompt is reported as an error.
exit_status_decline_fails(rep) ==
  IF rep \in { "done", "nothing_to_do", "answered", "chat_ended", "listed" }
    THEN 0 ELSE 1

\* The exit status of the process: SystemExit(0) on a declined prompt, 0 when
\* main returns, 1 when an exception reaches the interpreter.
exit_status(rep) ==
  IF rep \in { "declined", "done", "nothing_to_do", "answered", "chat_ended", "listed" }
    THEN 0 ELSE 1

\* prepare_file_for_upload converts exactly the .org files.
NeedsConversion(path) == Lower(Ext(path)) = ".org"

\* What one upload attempt can come to: success, a 400 from the service, any
\* other error, and for a converted file a failure of the converter.
Outcomes(path) ==
  { "ok", "bad_request", "error" } \cup
  (IF NeedsConversion(path) THEN { "conv_failed" } ELSE {})

\* --------------------------------------------------- upload loop of rag.py
\* Faulty variant: the path is appended whether or not the upload returned.
record_success_always(succ, path, outcome) == Append(succ, path)

\* indexed_success.append(path) is reached only when upload_and_poll returned.
record_success(succ, path, outcome) ==
  IF outcome = "ok" THEN Append(succ, path) ELSE succ

\* Faulty variant: the first failure leaves the loop.
loop_next_break(i, b, outcome) ==
  IF outcome # "ok" \/ i + 1 > Len(b) THEN "record" ELSE "upload"

\* The for loop goes on to the next file whatever the outcome.
loop_next(i, b, outcome) == IF i + 1 > Len(b) THEN "record" ELSE "upload"

\* Faulty variant: the uploaded paths are never recorded.
record_batch_never(f, vs_id, succ) == f

\* if indexed_success: add_indexed_files(vector_store_id, indexed_success)
record_batch(f, vs_id, succ) ==
  IF succ # << >> THEN add_indexed_files(f, vs_id, succ) ELSE f

\* cli.py main, index branch: save_vector_store_id_for_key(canonical_key(pattern), vs_id)
main_index_save(f, pattern, vs_id) ==
  save_vector_store_id_for_key(f, canonical_key(pattern), vs_id)

\* Faulty variant: main does not save after an extend.
main_extend_save_skipped(f, session_key, vs_id) == f

\* cli.py main, extend branch: save_vector_store_id_for_key(canonical_key(session_key), vector_store_id)
main_extend_save(f, session_key, vs_id) ==
  save_vector_store_id_for_key(f, canonical_key(session_key), vs_id)

\* Faulty variant: ask and chat mark the resolved store as the last one used.
main_query_save_touches(f, target, vs_id) ==
  save_vector_store_id_for_key(f, canonical_key(target), vs_id)

\* cli.py main, ask and chat branches: the resolved store is handed to the
\* query; save_vector_store_id_for_key is not called.
main_query_save(f, target, vs_id) == f

\* --------------------------------------------------------- chat of rag.py
\* What the user may type at the chat prompt; "<EOF>" is end of input or ^C.
ChatInputs == { "<EOF>", "", "  ", "/exit", "/QUIT", "/sair", "/clear", "hello " }

\* input(...).strip()
Strip(x) ==
  CASE x = "  " -> ""
    [] x = "hello " -> "hello"
    [] OTHER -> x

\* str.lower() on the chat inputs of the model.
LowerInput(x) == IF x = "/QUIT" THEN "/quit" ELSE x

\* Faulty variant: the line is tested before it is stripped.
chat_dispatch_unstripped(raw) ==
  IF raw = "<EOF>" THEN "break"
  ELSE IF raw = "" THEN "continue"
  ELSE IF LowerInput(raw) \in { "/exit", "/quit", "/sair" } THEN "break"
  ELSE IF LowerInput(raw) = "/clear" THEN "clear"
  ELSE "round"

\* What the loop does with one line of input.
chat_dispatch(raw) ==
  LET user_input == Strip(raw)
  IN IF raw = "<EOF>" THEN "break"
     ELSE IF user_input = "" THEN "continue"
     ELSE IF LowerInput(user_input) \in { "/exit", "/quit", "/sair" } THEN "break"
     ELSE IF LowerInput(user_input) = "/clear" THEN "clear"
     ELSE "round"

\* Faulty variant: the user turn stays in the transcript when the call failed.
chat_round_keeps_user(hist, raw, outcome) ==
  IF outcome = "ok"
    THEN hist \o << [ role |-> "user", content |-> Strip(raw) ],
                    [ role |-> "assistant", content |-> "answer" ] >>
    ELSE Append(hist, [ role |-> "user", content |-> Strip(raw) ])

\* history after a round: both turns are appended once the answer is there,
\* nothing is appended when the call failed.
chat_round(hist, raw, outcome) ==
  IF outcome = "ok"
    THEN hist \o << [ role |-> "user", content |-> Strip(raw) ],
                    [ role |-> "assistant", content |-> "answer" ] >>
    ELSE hist

\* messages = history + [{"role": "user", "content": user_input}]
chat_messages(hist, raw) == Append(hist, [ role |-> "user", content |-> Strip(raw) ])

\* No line was read yet.
NoRound == [ input |-> None, outcome |-> None, sent |-> << >> ]

\* The two builds of the program: the package (src/rag_cli, entry cli.main)
\* and the single-file script rag_cli.py.
Builds == { "package", "script" }

\* main calling ask / chat: cli.py passes model= and system_prompt=, which
\* ask(vector_store_id, question) and chat(vector_store_id) of rag.py do
\* not accept, so the call raises TypeError; the script passes none.
query_call(build) == IF build = "package" THEN "type_error" ELSE "called"

\* ------------------------------------------------------------ files.py
\* The loop of estimate_cost_for_files: a file that cannot be opened or
\* read is reported and adds nothing (the except clause), any other adds
\* len(f.read()).
RECURSIVE total_chars_of(_, _)
total_chars_of(paths, ch) ==
  IF paths = << >>
    THEN 0
    ELSE (IF Head(paths) \in ch.unreadable THEN 0 ELSE ch.size[Head(paths)])
           + total_chars_of(Tail(paths), ch)

\* Faulty variant: the ratio is rounded to the nearest integer.
est_tokens_of_rounded(total_chars) == (total_chars + 2) \div 4

\* est_tokens = int(total_chars / 4.0)
est_tokens_of(total_chars) == total_chars \div 4

estimate_cost_for_files(paths, ch) ==
  [ total_chars |-> total_chars_of(paths, ch),
    est_tokens |-> est_tokens_of(total_chars_of(paths, ch)) ]

\* No file contents are modelled.
NoChars == [ size |-> << >>, unreadable |-> {} ]

\* No estimate was made.
NoEstimate == [ total_chars |-> 0, est_tokens |-> 0 ]

\* ------------------------------------------------------------------ state
VARIABLES
  disk,             \* regular files that exist (absolute paths)
  file,             \* the cache file ~/.rag_vector_stores.json
  nStores,          \* stores the remote service has created
  nCmds,            \* commands started so far
  pc,               \* position of the running command ("idle": none running)
  cmd,              \* the command running
  tok,              \* extend/ask: the session token argv[2]
  pat,              \* index/extend: the path-or-glob
  vector_store_id,  \* the store the command works on
  file_paths,       \* what _collect_supported_files returned
  batch,            \* the list the upload loop iterates over
  idx,              \* next position of the upload loop
  indexed_success,  \* the loop's list of uploaded paths
  answered,         \* the answer typed at the cost prompt of this command
  opCreates,        \* vector_stores.create calls made by this command
  attempts,         \* paths whose upload this command attempted, in order
  opOk,             \* paths whose upload_and_poll returned in this command
  startFile,        \* the cache file when this command started
  exitStatus,       \* -1 while running, else the process exit status
  report,           \* how the command ended / what it reported
  resolved,         \* what resolve_vector_store_id returned (extend, ask, chat)
  history,          \* chat: the transcript
  lastRound,        \* chat: the line read last, the request made for it, its outcome
  prev,             \* the command before, see Ended
  lastTouched,      \* store of the last index/extend that ran to completion
  everOk,           \* stores that received a successful upload
  everUploaded,     \* the << store, path >> pairs uploaded successfully so far
  procs,            \* two concurrent processes: their cache calls (RaceSpec)
  interleaved,      \* a process read the cache between the other's read and write
  loaded,           \* what the last direct load_cache call returned (CacheSpec)
  tmp_dirs,         \* temporary directories that exist (UploadSpec)
  tmp_path,         \* the loop's tmp_path: the directory to remove, or None
  nTmp,             \* tempfile.mkdtemp calls made so far
  chars,            \* what reading each file as text gives (EstimateSpec)
  estimate          \* what the last estimate_cost_for_files call returned

opvars ==
  << cmd, tok, pat, vector_store_id, file_paths, batch, idx, indexed_success,
     answered, opCreates, attempts, opOk, startFile, exitStatus, report, resolved,
     history, lastRound >>

racevars == << procs, interleaved >>

tmpvars == << tmp_dirs, tmp_path, nTmp >>

estvars == << chars, estimate >>

sidevars == << racevars, loaded, tmpvars, estvars >>

vars == << disk, file, nStores, nCmds, pc, opvars, prev, lastTouched, everOk, everUploaded, sidevars >>

\* path-or-glob arguments of index and extend
Patterns == { "docs", "docs/*.md" }

\* path-or-glob arguments of index: also a regular file of the working
\* directory /home/u, outside docs, whose name begins with vs_
IndexPatterns == Patterns \cup { "vs_notes.md" }

\* session tokens of extend, ask and chat
Tokens == { "~/docs", "docs/*.md", "auto", "vs_1" }

NoPrev ==
  [ cmd |-> "none", tok |-> None, pat |-> None, vs |-> None, allOk |-> FALSE ]

\* The command ran to its end: not declined, not aborted by an error.
Completed == pc = "done" /\ report \in { "done", "nothing_to_do" }

\* What is remembered of a command once its process has exited: the index or
\* extend that ran to completion (forgotten when a file appears afterwards).
Ended ==
  IF Completed /\ cmd \in { "index", "extend" }
    THEN [ cmd |-> cmd, tok |-> tok, pat |-> pat, vs |-> vector_store_id,
           allOk |-> (ToSet(attempts) = opOk) ]
    ELSE NoPrev

\* The variables of a process that is not running.
NoProcess ==
  /\ cmd' = "none"
  /\ tok' = None
  /\ pat' = None
  /\ vector_store_id' = None
  /\ file_paths' = << >>
  /\ batch' = << >>
  /\ idx' = 1
  /\ indexed_success' = << >>
  /\ answered' = NoAnswer
  /\ opCreates' = 0
  /\ attempts' = << >>
  /\ opOk' = {}
  /\ startFile' = MissingFile
  /\ exitStatus' = -1
  /\ report' = "none"
  /\ resolved' = None
  /\ history' = << >>
  /\ lastRound' = NoRound

Init ==
  /\ disk = InitialFiles
  /\ file = MissingFile
  /\ nStores = 0
  /\ nCmds = 0
  /\ pc = "idle"
  /\ cmd = "none"
  /\ tok = None
  /\ pat = None
  /\ vector_store_id = None
  /\ file_paths = << >>
  /\ batch = << >>
  /\ idx = 1
  /\ indexed_success = << >>
  /\ answered = NoAnswer
  /\ opCreates = 0
  /\ attempts = << >>
  /\ opOk = {}
  /\ startFile = MissingFile
  /\ exitStatus = -1
  /\ report = "none"
  /\ resolved = None
  /\ history = << >>
  /\ lastRound = NoRound
  /\ prev = NoPrev
  /\ lastTouched = None
  /\ everOk = {}
  /\ everUploaded = {}
  /\ procs = << >>
  /\ interleaved = FALSE
  /\ loaded = None
  /\ tmp_dirs = {}
  /\ tmp_path = None
  /\ nTmp = 0
  /\ chars = NoChars
  /\ estimate = NoEstimate

\* A file appears in the directory between two commands.
AddFile(f) ==
  /\ pc = "idle"
  /\ f \notin disk
  /\ disk' = disk \cup {f}
  /\ prev' = NoPrev
  /\ UNCHANGED << file, nStores, nCmds, pc, opvars, lastTouched, everOk, everUploaded, sidevars >>

\* What every command sets when it starts.
Begin(c, t, p) ==
  /\ pc = "idle"
  /\ nCmds < MaxCmds
  /\ nCmds' = nCmds + 1
  /\ cmd' = c
  /\ tok' = t
  /\ pat' = p
  /\ startFile' = file
  /\ indexed_success' = << >>
  /\ idx' = 1
  /\ answered' = NoAnswer
  /\ opCreates' = 0
  /\ attempts' = << >>
  /\ opOk' = {}
  /\ history' = << >>
  /\ lastRound' = NoRound
  /\ UNCHANGED << disk, nStores, prev, lastTouched, everOk, everUploaded, sidevars >>

\* rag-cli index PATTERN, up to the cost prompt (rag.py 53-67).
StartIndex(p) ==
  /\ nStores < MaxStores
  /\ Begin("index", None, p)
  /\ UNCHANGED file
  /\ resolved' = None
  /\ vector_store_id' = None
  /\ \E paths \in glob_results(p, disk) :
     LET c == collect_supported_files(paths)
     IN /\ file_paths' = c.file_paths
        /\ batch' = c.file_paths
        /\ IF after_collect(c.file_paths) = "no_supported_files"
             THEN pc' = "done" /\ report' = "no_supported_files" /\ exitStatus' = exit_status(report')
             ELSE pc' = "confirm" /\ exitStatus' = -1 /\ report' = "none"

\* rag-cli extend SESSION_KEY PATTERN, up to the cost prompt
\* (cli.py 96-97, rag.py 118-139).
StartExtend(t, p) ==
  /\ Begin("extend", t, p)
  /\ UNCHANGED file
  /\ resolved' = resolve_vector_store_id(file, t)
  /\ IF resolved' = NotFound
       THEN /\ vector_store_id' = None
            /\ file_paths' = << >>
            /\ batch' = << >>
            /\ pc' = "done" /\ report' = "not_found"
            /\ exitStatus' = exit_status(report')
       ELSE \E paths \in glob_results(p, disk) :
            LET c == collect_supported_files(paths)
                nf == new_files(c.file_paths, get_indexed_files(file, resolved'))
            IN /\ vector_store_id' = resolved'
               /\ file_paths' = c.file_paths
               /\ IF after_collect(c.file_paths) = "no_supported_files"
                    THEN /\ batch' = << >>
                         /\ pc' = "done"
                         /\ report' = "no_supported_files"
                         /\ exitStatus' = exit_status(report')
                    ELSE /\ batch' = nf
                         /\ exitStatus' = -1
                         /\ IF nf = << >>
                              THEN pc' = "mainsave" /\ report' = "nothing_to_do"
                              ELSE pc' = "confirm" /\ report' = "none"

\* show_cost_and_confirm: the user answers the prompt (files.py 29-43).
Confirm(ans) ==
  /\ pc = "confirm"
  /\ answered' = ans
  /\ IF Confirms(ans)
       THEN /\ pc' = IF cmd = "index" THEN "create" ELSE "upload"
            /\ UNCHANGED << exitStatus, report >>
       ELSE /\ pc' = "done"
            /\ report' = "declined"
            /\ exitStatus' = exit_status(report')
  /\ UNCHANGED << disk, file, nStores, nCmds, cmd, tok, pat, vector_store_id,
                  file_paths, batch, idx, indexed_success, opCreates, attempts,
                  opOk, startFile, resolved, history, lastRound, prev, lastTouched, everOk, everUploaded,
                  sidevars >>

\* client.vector_stores.create (rag.py 70-71); an error of the call ends the
\* command with a traceback.
CreateStore(ok) ==
  /\ pc = "create"
  /\ opCreates' = opCreates + 1
  /\ IF ok
       THEN /\ nStores' = nStores + 1
            /\ vector_store_id' = VsName(nStores + 1)
            /\ pc' = "upload"
            /\ UNCHANGED << exitStatus, report >>
       ELSE /\ pc' = "done"
            /\ report' = "create_failed"
            /\ exitStatus' = exit_status(report')
            /\ UNCHANGED << nStores, vector_store_id >>
  /\ UNCHANGED << disk, file, nCmds, cmd, tok, pat, file_paths, batch, idx,
                  indexed_success, answered, attempts, opOk, startFile,
                  resolved, history, lastRound, prev, lastTouched, everOk, everUploaded, sidevars >>

\* The stores the remote service has: the ones it created, whose
\* identifiers it issues once.
RemoteStores == { VsName(i) : i \in 1..nStores }

\* One iteration of the upload loop (rag.py 78-101 and 145-168); the
\* service accepts an upload only into a store it has.
UploadStep(outcome) ==
  /\ pc = "upload"
  /\ idx <= Len(batch)
  /\ outcome \in Outcomes(batch[idx])
  /\ outcome = "ok" => vector_store_id \in RemoteStores
  /\ attempts' = Append(attempts, batch[idx])
  /\ opOk' = IF outcome = "ok" THEN opOk \cup { batch[idx] } ELSE opOk
  /\ indexed_success' = record_success(indexed_success, batch[idx], outcome)
  /\ idx' = idx + 1
  /\ pc' = loop_next(idx, batch, outcome)
  /\ everOk' = IF outcome = "ok" THEN everOk \cup { vector_store_id } ELSE everOk
  /\ everUploaded' = IF outcome = "ok"
                       THEN everUploaded \cup { << vector_store_id, batch[idx] >> }
                       ELSE everUploaded
  /\ UNCHANGED << disk, file, nStores, nCmds, cmd, tok, pat, vector_store_id,
                  file_paths, batch, answered, opCreates, startFile, exitStatus,
                  report, resolved, history, lastRound, prev, lastTouched, sidevars >>

\* After the loop: the uploaded paths are recorded (rag.py 103-104, 170-171).
RecordFiles ==
  /\ pc = "record"
  /\ file' = record_batch(file, vector_store_id, indexed_success)
  /\ pc' = IF cmd = "index" THEN "save" ELSE "mainsave"
  /\ UNCHANGED << disk, nStores, nCmds, opvars, prev, lastTouched, everOk, everUploaded, sidevars >>

\* index_path_or_glob saves the session itself (rag.py 106-110).
SaveSession ==
  /\ pc = "save"
  /\ file' = save_vector_store_id_for_key(file, canonical_key(pat), vector_store_id)
  /\ pc' = "mainsave"
  /\ UNCHANGED << disk, nStores, nCmds, opvars, prev, lastTouched, everOk, everUploaded, sidevars >>

\* main saves the session after the orchestrator returned (cli.py 81-86, 99-103).
MainSave ==
  /\ pc = "mainsave"
  /\ file' = IF cmd = "index"
               THEN main_index_save(file, pat, vector_store_id)
               ELSE main_extend_save(file, tok, vector_store_id)
  /\ pc' = "done"
  /\ report' = IF report = "nothing_to_do" THEN report ELSE "done"
  /\ exitStatus' = exit_status(report')
  /\ lastTouched' = IF cmd = "index" THEN VsName(nStores) ELSE resolved
  /\ UNCHANGED << disk, nStores, nCmds, cmd, tok, pat, vector_store_id, file_paths,
                  batch, idx, indexed_success, answered, opCreates, attempts,
                  opOk, startFile, resolved, history, lastRound, prev, everOk, everUploaded, sidevars >>

\* rag-cli ask TARGET question: the target is resolved, then the remote
\* answer call is made (cli.py 105-126, rag.py 176-199); a failed call is
\* re-raised and ends the command with a traceback.
Ask(t, build, ok) ==
  /\ Begin("ask", t, None)
  /\ resolved' = resolve_vector_store_id(file, t)
  /\ vector_store_id' = IF resolved' = NotFound THEN None ELSE resolved'
  /\ file' = IF resolved' = NotFound THEN file ELSE main_query_save(file, t, resolved')
  /\ file_paths' = << >>
  /\ batch' = << >>
  /\ pc' = "done"
  /\ report' = IF resolved' = NotFound THEN "not_found"
               ELSE IF query_call(build) = "type_error" THEN "type_error"
               ELSE IF ok THEN "answered" ELSE "remote_error"
  /\ exitStatus' = exit_status(report')

\* rag-cli chat TARGET: the target is resolved and the loop is entered
\* (cli.py 128-142, rag.py 202-210).
Chat(t, build) ==
  /\ Begin("chat", t, None)
  /\ resolved' = resolve_vector_store_id(file, t)
  /\ vector_store_id' = IF resolved' = NotFound THEN None ELSE resolved'
  /\ file' = IF resolved' = NotFound THEN file ELSE main_query_save(file, t, resolved')
  /\ file_paths' = << >>
  /\ batch' = << >>
  /\ IF resolved' = NotFound \/ query_call(build) = "type_error"
       THEN /\ pc' = "done"
            /\ report' = IF resolved' = NotFound THEN "not_found" ELSE "type_error"
            /\ exitStatus' = exit_status(report')
       ELSE pc' = "chat" /\ report' = "none" /\ exitStatus' = -1

\* One pass of the chat loop: a line is read and dealt with (rag.py 212-255).
ChatInput(raw, outcome) ==
  /\ pc = "chat"
  /\ LET what == chat_dispatch(raw)
     IN /\ what = "round" => Len(history) < 2 * MaxRounds
        /\ what # "round" => outcome = "ok"
        /\ lastRound' = [ input |-> raw,
                          outcome |-> IF what = "round" THEN outcome ELSE None,
                          sent |-> IF what = "round"
                                     THEN chat_messages(history, raw) ELSE << >> ]
        /\ history' = CASE what = "clear" -> << >>
                         [] what = "round" -> chat_round(history, raw, outcome)
                         [] OTHER -> history
        /\ IF what = "break"
             THEN pc' = "done" /\ report' = "chat_ended" /\ exitStatus' = exit_status(report')
             ELSE UNCHANGED << pc, report, exitStatus >>
  /\ UNCHANGED << disk, file, nStores, nCmds, cmd, tok, pat, vector_store_id,
                  file_paths, batch, idx, indexed_success, answered, opCreates,
                  attempts, opOk, startFile, resolved, prev, lastTouched, everOk, everUploaded,
                  sidevars >>

\* rag-cli list: the cached sessions are printed (cache.py 99-111).
List ==
  /\ Begin("list", None, None)
  /\ UNCHANGED file
  /\ resolved' = None
  /\ vector_store_id' = None
  /\ file_paths' = << >>
  /\ batch' = << >>
  /\ pc' = "done"
  /\ report' = "listed"
  /\ exitStatus' = exit_status(report')

\* The process exits; the next command is a new process.
Exit ==
  /\ pc = "done"
  /\ pc' = "idle"
  /\ prev' = Ended
  /\ NoProcess
  /\ UNCHANGED << disk, file, nStores, nCmds, lastTouched, everOk, everUploaded, sidevars >>

Next ==
  \/ \E f \in AllFiles : AddFile(f)
  \/ \E p \in IndexPatterns : StartIndex(p)
  \/ \E t \in Tokens, p \in Patterns : StartExtend(t, p)
  \/ \E a \in Answers : Confirm(a)
  \/ \E ok \in BOOLEAN : CreateStore(ok)
  \/ \E o \in { "ok", "bad_request", "error", "conv_failed" } : UploadStep(o)
  \/ RecordFiles
  \/ SaveSession
  \/ MainSave
  \/ \E t \in Tokens, build \in Builds, ok \in BOOLEAN : Ask(t, build, ok)
  \/ \E t \in Tokens, build \in Builds : Chat(t, build)
  \/ \E raw \in ChatInputs, o \in { "ok", "bad_request", "error" } : ChatInput(raw, o)
  \/ List
  \/ Exit

Spec == Init /\ [][Next]_vars

TypeOK ==
  /\ disk \subseteq AllFiles \cup InitialFiles
  /\ nStores \in 0..MaxStores
  /\ pc \in { "idle", "confirm", "create", "upload", "record", "save", "mainsave",
             "chat", "done" }
  /\ exitStatus \in { -1, 0, 1 }

\* ============================================== the cache module alone
\* The functions of cache.py called one after the other on a cache file of
\* any content.

MaxCalls == 3

\* Objects without sessions and files_per_vs, as older versions wrote them.
LegacyMaps ==
  { ("/home/u/docs" :> "vs_1") @@ ("_last" :> "vs_1"),
    ("docs/*.md" :> "vs_1") @@ ("_drafts/*.md" :> "vs_2") @@ ("_last" :> "vs_2"),
    ("docs/*.md" :> "vs_1") }

\* The contents the cache file can have when the program starts.
CacheFiles ==
  { MissingFile, InvalidFile }
    \cup { [ kind |-> "json", value |-> v ] : v \in NonDictValues }
    \cup { [ kind |-> "legacy", flat |-> m ] : m \in LegacyMaps }

SessionKeys == { "/home/u/docs", "_drafts/*.md" }

StoreIds == { "vs_1", "vs_2" }

\* Lists of paths handed to add_indexed_files, relative and absolute.
FileLists ==
  { << "docs/a.md", "/home/u/docs/a.md" >>,
    << "/home/u/docs/B.ORG" >>,
    << "docs/B.ORG", "docs/a.md" >> }

CacheInit ==
  /\ file \in CacheFiles
  /\ disk = InitialFiles
  /\ nStores = 0
  /\ nCmds = 0
  /\ pc = "idle"
  /\ cmd = "none"
  /\ tok = None
  /\ pat = None
  /\ vector_store_id = None
  /\ file_paths = << >>
  /\ batch = << >>
  /\ idx = 1
  /\ indexed_success = << >>
  /\ answered = NoAnswer
  /\ opCreates = 0
  /\ attempts = << >>
  /\ opOk = {}
  /\ startFile = MissingFile
  /\ exitStatus = -1
  /\ report = "none"
  /\ resolved = None
  /\ history = << >>
  /\ lastRound = NoRound
  /\ prev = NoPrev
  /\ lastTouched = None
  /\ everOk = {}
  /\ everUploaded = {}
  /\ procs = << >>
  /\ interleaved = FALSE
  /\ loaded = None
  /\ tmp_dirs = {}
  /\ tmp_path = None
  /\ nTmp = 0
  /\ chars = NoChars
  /\ estimate = NoEstimate

\* What a direct call leaves alone.
CallFrame ==
  /\ nCmds < MaxCalls
  /\ nCmds' = nCmds + 1
  /\ startFile' = file
  /\ report' = IF load_raises(file) THEN "AttributeError" ELSE "ok"
  /\ UNCHANGED << disk, nStores, pc, pat, file_paths, idx, indexed_success, answered,
                  opCreates, attempts, opOk, exitStatus, resolved, history, lastRound, prev,
                  lastTouched, everOk, everUploaded, racevars, tmpvars, estvars >>

CallLoadCache ==
  /\ CallFrame
  /\ cmd' = "load_cache"
  /\ tok' = None
  /\ vector_store_id' = None
  /\ batch' = << >>
  /\ loaded' = IF load_raises(file) THEN None ELSE load_cache(file)
  /\ UNCHANGED file

CallSaveVectorStoreIdForKey(key, vs_id) ==
  /\ CallFrame
  /\ cmd' = "save_vector_store_id_for_key"
  /\ tok' = key
  /\ vector_store_id' = vs_id
  /\ batch' = << >>
  /\ loaded' = None
  /\ file' = IF load_raises(file)
               THEN file
               ELSE save_vector_store_id_for_key(file, key, vs_id)

CallAddIndexedFiles(vs_id, files) ==
  /\ CallFrame
  /\ cmd' = "add_indexed_files"
  /\ tok' = None
  /\ vector_store_id' = vs_id
  /\ batch' = files
  /\ loaded' = None
  /\ file' = IF load_raises(file)
               THEN file
               ELSE add_indexed_files(file, vs_id, files)

\* What canonical_key can be given: directories, a glob, references to HOME
\* and to environment variables.
KeyInputs ==
  { "docs", "~/docs", "/home/u/docs", "docs/*.md", "$DOCS", "$LINK", "$UNSET/x" }

CallCanonicalKey(x) ==
  /\ nCmds < MaxCalls
  /\ nCmds' = nCmds + 1
  /\ startFile' = file
  /\ report' = "ok"
  /\ cmd' = "canonical_key"
  /\ tok' = x
  /\ resolved' = canonical_key(x)
  /\ vector_store_id' = None
  /\ batch' = << >>
  /\ loaded' = None
  /\ UNCHANGED << disk, file, nStores, pc, pat, file_paths, idx, indexed_success,
                  answered, opCreates, attempts, opOk, exitStatus, history, lastRound,
                  prev, lastTouched, everOk, everUploaded, racevars, tmpvars, estvars >>

CacheNext ==
  \/ CallLoadCache
  \/ \E x \in KeyInputs : CallCanonicalKey(x)
  \/ \E key \in SessionKeys, vs_id \in StoreIds : CallSaveVectorStoreIdForKey(key, vs_id)
  \/ \E vs_id \in StoreIds, files \in FileLists : CallAddIndexedFiles(vs_id, files)

CacheSpec == CacheInit /\ [][CacheNext]_vars

\* ================================================== two processes at once
\* Two processes each make one mutating cache call; a call is a load_cache
\* followed, after the change in memory, by a save_cache.  save_cache is
\* Path.write_text: the file is opened for writing, which empties it, and
\* the text is written afterwards; a process can be killed in between.

Procs == { 1, 2 }

Other(p) == 3 - p

\* The mutating calls a process can make.
RaceOps ==
  { [ kind |-> "save_vector_store_id_for_key", key |-> k, vs |-> v, files |-> << >> ]
      : k \in SessionKeys, v \in StoreIds }
    \cup { [ kind |-> "add_indexed_files", key |-> None, vs |-> v, files |-> F ]
             : v \in StoreIds, F \in FileLists }

\* The documents the two processes can find.
RaceFiles ==
  { MissingFile,
    [ kind |-> "doc", sessions |-> ("docs/*.md" :> "vs_1"),
      files_per_vs |-> ("vs_1" :> << "/home/u/docs/c.png" >>), last |-> "vs_1" ] }

\* The document the call op writes when its load_cache read the file f.
apply_op(op, f) ==
  IF op.kind = "save_vector_store_id_for_key"
    THEN save_vector_store_id_for_key(f, op.key, op.vs)
    ELSE add_indexed_files(f, op.vs, op.files)

RaceInit ==
  /\ file \in RaceFiles
  /\ startFile = file
  /\ procs \in [ Procs -> { [ pc |-> "start", op |-> o, snap |-> MissingFile ]
                             : o \in RaceOps } ]
  /\ interleaved = FALSE
  /\ loaded = None
  /\ tmp_dirs = {}
  /\ tmp_path = None
  /\ nTmp = 0
  /\ chars = NoChars
  /\ estimate = NoEstimate
  /\ disk = InitialFiles
  /\ nStores = 0
  /\ nCmds = 0
  /\ pc = "idle"
  /\ cmd = "none"
  /\ tok = None
  /\ pat = None
  /\ vector_store_id = None
  /\ file_paths = << >>
  /\ batch = << >>
  /\ idx = 1
  /\ indexed_success = << >>
  /\ answered = NoAnswer
  /\ opCreates = 0
  /\ attempts = << >>
  /\ opOk = {}
  /\ exitStatus = -1
  /\ report = "none"
  /\ resolved = None
  /\ history = << >>
  /\ lastRound = NoRound
  /\ prev = NoPrev
  /\ lastTouched = None
  /\ everOk = {}
  /\ everUploaded = {}

\* Process p runs load_cache: it holds the document the file has now.
ProcLoad(p) ==
  /\ procs[p].pc = "start"
  /\ procs' = [ procs EXCEPT ![p].pc = "loaded", ![p].snap = file ]
  /\ interleaved' = (interleaved \/ procs[Other(p)].pc \in { "loaded", "writing" })
  /\ UNCHANGED << disk, file, nStores, nCmds, pc, opvars, prev, lastTouched, everOk, everUploaded,
                  loaded, tmpvars, estvars >>

\* The file right after open(path, "w"): empty, which json.loads rejects.
opened_for_writing(f) == InvalidFile

\* Process p changes the document it holds and save_cache opens the file.
ProcOpen(p) ==
  /\ procs[p].pc = "loaded"
  /\ file' = opened_for_writing(file)
  /\ procs' = [ procs EXCEPT ![p].pc = "writing" ]
  /\ UNCHANGED << disk, nStores, nCmds, pc, opvars, prev, lastTouched, everOk, everUploaded,
                  interleaved, loaded, tmpvars, estvars >>

\* save_cache of process p writes the text of its document and closes.
ProcSave(p) ==
  /\ procs[p].pc = "writing"
  /\ file' = apply_op(procs[p].op, procs[p].snap)
  /\ procs' = [ procs EXCEPT ![p].pc = "done" ]
  /\ lastTouched' = p
  /\ UNCHANGED << disk, nStores, nCmds, pc, opvars, prev, everOk, everUploaded, interleaved, loaded, tmpvars, estvars >>

\* Process p is killed after save_cache opened the file.
ProcKill(p) ==
  /\ procs[p].pc = "writing"
  /\ procs' = [ procs EXCEPT ![p].pc = "killed" ]
  /\ UNCHANGED << disk, file, nStores, nCmds, pc, opvars, prev, lastTouched, everOk, everUploaded,
                  interleaved, loaded, tmpvars, estvars >>

RaceNext == \E p \in Procs : ProcLoad(p) \/ ProcOpen(p) \/ ProcSave(p) \/ ProcKill(p)

RaceSpec == RaceInit /\ [][RaceNext]_vars

\* ============================================ the upload loop step by step
\* One iteration of the loop of index_path_or_glob / extend_path_or_glob
\* (rag.py 78-101, 145-168) with prepare_file_for_upload (files.py 46-88)
\* taken apart: mkdtemp, pandoc, open, upload_and_poll, finally.

\* The lists the loop can be given: sorted, without duplicates.
UploadBatches ==
  { Sorted(S) : S \in (SUBSET (AllFiles \cup { "/home/u/docs/n.org" })) \ { {} } }

\* The directories tempfile.mkdtemp(prefix="rag_org_") returns, one per call.
TmpNames == << "/tmp/rag_org_1", "/tmp/rag_org_2" >>

TmpName(i) == TmpNames[i]

\* Faulty variant: a failed conversion leaves its directory behind.
convert_failed_cleanup_none(dirs, d) == dirs

\* shutil.rmtree(tmp_dir, ignore_errors=True) in the except clauses of
\* convert_org_to_md_temp.
convert_failed_cleanup(dirs, d) == dirs \ { d }

\* The finally clause of the loop: rmtree(dirname(tmp_path)) when tmp_path is set.
finally_cleanup(dirs, tp) == IF tp # None THEN dirs \ { tp } ELSE dirs

UploadInit ==
  /\ batch \in UploadBatches
  /\ cmd \in { "index", "extend" }
  /\ vector_store_id \in { VsName(1), VsName(2) }
  /\ pc = "prepare"
  /\ idx = 1
  /\ indexed_success = << >>
  /\ attempts = << >>
  /\ report = "none"
  /\ tmp_dirs = {}
  /\ tmp_path = None
  /\ nTmp = 0
  /\ chars = NoChars
  /\ estimate = NoEstimate
  /\ disk = InitialFiles
  /\ file = MissingFile
  /\ nStores = 0
  /\ nCmds = 0
  /\ tok = None
  /\ pat = None
  /\ file_paths = << >>
  /\ answered = NoAnswer
  /\ opCreates = 0
  /\ opOk = {}
  /\ startFile = MissingFile
  /\ exitStatus = -1
  /\ resolved = None
  /\ history = << >>
  /\ lastRound = NoRound
  /\ prev = NoPrev
  /\ lastTouched = None
  /\ everOk = {}
  /\ everUploaded = {}
  /\ procs = << >>
  /\ interleaved = FALSE
  /\ loaded = None

\* What the steps of the loop leave alone.
LoopFrame ==
  UNCHANGED << disk, file, nStores, nCmds, cmd, tok, pat, vector_store_id, file_paths,
               batch, answered, opCreates, opOk, startFile, exitStatus, resolved,
               history, lastRound, prev, lastTouched, everOk, everUploaded, racevars, loaded, estvars >>

\* The iteration is over: the loop moves to the next file or ends.
NextIteration ==
  /\ idx' = idx + 1
  /\ pc' = IF idx + 1 > Len(batch) THEN "after_loop" ELSE "prepare"

\* tmp_path = None; prepare_file_for_upload: a file that is not .org is
\* uploaded as it is, for an .org file mkdtemp makes a directory.
Prepare ==
  /\ pc = "prepare"
  /\ idx <= Len(batch)
  /\ attempts' = Append(attempts, batch[idx])
  /\ tmp_path' = None
  /\ report' = "none"
  /\ IF NeedsConversion(batch[idx])
       THEN /\ nTmp' = nTmp + 1
            /\ tmp_dirs' = tmp_dirs \cup { TmpName(nTmp + 1) }
            /\ pc' = "convert"
       ELSE /\ pc' = "open"
            /\ UNCHANGED << nTmp, tmp_dirs >>
  /\ UNCHANGED << idx, indexed_success >>
  /\ LoopFrame

\* pandoc runs: when it is missing or fails, the directory is removed and
\* the error reaches the loop with tmp_path still None, so the finally
\* clause has nothing to remove and the iteration is over.
Convert(outcome) ==
  /\ pc = "convert"
  /\ report' = outcome
  /\ IF outcome = "converted"
       THEN /\ tmp_path' = TmpName(nTmp)
            /\ pc' = "open"
            /\ UNCHANGED << tmp_dirs, idx >>
       ELSE /\ tmp_dirs' = finally_cleanup(convert_failed_cleanup(tmp_dirs, TmpName(nTmp)), tmp_path)
            /\ NextIteration
            /\ UNCHANGED tmp_path
  /\ UNCHANGED << nTmp, indexed_success, attempts >>
  /\ LoopFrame

\* open(upload_path, "rb")
OpenFile(ok) ==
  /\ pc = "open"
  /\ report' = IF ok THEN "opened" ELSE "open_error"
  /\ pc' = IF ok THEN "upload_and_poll" ELSE "finally"
  /\ UNCHANGED << tmp_dirs, tmp_path, nTmp, idx, indexed_success, attempts >>
  /\ LoopFrame

\* client.vector_stores.files.upload_and_poll
UploadAndPoll(outcome) ==
  /\ pc = "upload_and_poll"
  /\ report' = outcome
  /\ indexed_success' = record_success(indexed_success, batch[idx], outcome)
  /\ pc' = "finally"
  /\ UNCHANGED << tmp_dirs, tmp_path, nTmp, idx, attempts >>
  /\ LoopFrame

\* The finally clause, then the next iteration.
Finally ==
  /\ pc = "finally"
  /\ tmp_dirs' = finally_cleanup(tmp_dirs, tmp_path)
  /\ NextIteration
  /\ UNCHANGED << tmp_path, nTmp, report, indexed_success, attempts >>
  /\ LoopFrame

UploadNext ==
  \/ Prepare
  \/ \E o \in { "converted", "pandoc_missing", "pandoc_failed" } : Convert(o)
  \/ \E ok \in BOOLEAN : OpenFile(ok)
  \/ \E o \in { "ok", "bad_request", "error" } : UploadAndPoll(o)
  \/ Finally

UploadSpec == UploadInit /\ [][UploadNext]_vars

\* ============================================== the cost estimate alone
\* estimate_cost_for_files called on lists of files of any length, some of
\* which cannot be read.

\* The character counts a file can have.
CharCounts == { 0, 3, 500, 501 }

EstimateInit ==
  /\ chars \in { [ size |-> sz, unreadable |-> u ] :
                   sz \in [ AllFiles -> CharCounts ], u \in SUBSET AllFiles }
  /\ estimate = NoEstimate
  /\ batch = << >>
  /\ cmd = "none"
  /\ disk = AllFiles
  /\ file = MissingFile
  /\ nStores = 0
  /\ nCmds = 0
  /\ pc = "idle"
  /\ tok = None
  /\ pat = None
  /\ vector_store_id = None
  /\ file_paths = << >>
  /\ idx = 1
  /\ indexed_success = << >>
  /\ answered = NoAnswer
  /\ opCreates = 0
  /\ attempts = << >>
  /\ opOk = {}
  /\ startFile = MissingFile
  /\ exitStatus = -1
  /\ report = "none"
  /\ resolved = None
  /\ history = << >>
  /\ lastRound = NoRound
  /\ prev = NoPrev
  /\ lastTouched = None
  /\ everOk = {}
  /\ everUploaded = {}
  /\ procs = << >>
  /\ interleaved = FALSE
  /\ loaded = None
  /\ tmp_dirs = {}
  /\ tmp_path = None
  /\ nTmp = 0

CallEstimate(paths) ==
  /\ cmd = "none"
  /\ cmd' = "estimate_cost_for_files"
  /\ batch' = paths
  /\ estimate' = estimate_cost_for_files(paths, chars)
  /\ UNCHANGED << disk, file, nStores, nCmds, pc, tok, pat, vector_store_id, file_paths,
                  idx, indexed_success, answered, opCreates, attempts, opOk, startFile,
                  exitStatus, report, resolved, history, lastRound, prev, lastTouched,
                  everOk, everUploaded, racevars, loaded, tmpvars, chars >>

EstimateNext == \E paths \in { Sorted(S) : S \in SUBSET AllFiles } : CallEstimate(paths)

EstimateSpec == EstimateInit /\ [][EstimateNext]_vars

\* ============================================================ properties
\* The cache document read off the file, independently of cache.py.
SessionsOf(f) ==
  CASE f.kind = "doc" -> f.sessions
    [] f.kind = "legacy" -> [ k \in (DOMAIN f.flat) \ { "_last" } |-> f.flat[k] ]
    [] OTHER -> << >>

FilesPerVsOf(f) == IF f.kind = "doc" THEN f.files_per_vs ELSE << >>

LastOf(f) ==
  CASE f.kind = "doc" -> f.last
    [] f.kind = "legacy" -> IF "_last" \in DOMAIN f.flat THEN f.flat["_last"] ELSE None
    [] OTHER -> None

\* The paths recorded for store s, the empty set for an unknown store.
RecordedFor(f, s) ==
  IF s \in DOMAIN FilesPerVsOf(f) THEN ToSet(FilesPerVsOf(f)[s]) ELSE {}

AffirmativeAnswers == { "y", "yes", "s", "sim" }

\* The user typed an affirmative answer at the cost prompt of this command.
AnsweredYes == answered # NoAnswer /\ Normalize(answered) \in AffirmativeAnswers

\* The user typed something else at the cost prompt of this command.
AnsweredNo == answered # NoAnswer /\ Normalize(answered) \notin AffirmativeAnswers

\* C1: every step that creates a vector store or attempts an upload is taken
\* by a command whose cost prompt has already been answered affirmatively.
C1_BillableOnlyAfterConfirmation ==
  [][ (nStores' > nStores \/ opCreates' > opCreates \/ Len(attempts') > Len(attempts))
        => AnsweredYes ]_vars

C1_Witness ==
  /\ pc = "done" /\ cmd = "index" /\ opCreates = 1 /\ Len(attempts) = 2
  /\ AnsweredYes

\* C2: when the prompt of an index or extend is declined, the command has
\* ended with exit status 0, it created no store and attempted no upload,
\* and the cache file is what it was when the command started.
C2_DeclineLeavesEverythingUntouched ==
  AnsweredNo =>
    /\ pc = "done"
    /\ exitStatus = 0
    /\ opCreates = 0
    /\ attempts = << >>
    /\ file = startFile

C2_Witness ==
  /\ AnsweredNo /\ cmd = "extend" /\ startFile.kind = "doc" /\ Len(batch) = 1

\* C3: an extend whose collected files are all recorded for its store makes
\* no upload attempt, shows no cost prompt and leaves the store's recorded
\* paths as they were.
C3_ExtendWithNothingNew ==
  ( /\ cmd = "extend"
    /\ vector_store_id # None
    /\ ToSet(file_paths) \subseteq RecordedFor(startFile, vector_store_id) )
  => /\ attempts = << >>
     /\ answered = NoAnswer
     /\ pc # "confirm"
     /\ RecordedFor(file, vector_store_id) = RecordedFor(startFile, vector_store_id)
     /\ (vector_store_id \in DOMAIN FilesPerVsOf(file)
           <=> vector_store_id \in DOMAIN FilesPerVsOf(startFile))

C3_Witness ==
  /\ pc = "done" /\ cmd = "extend" /\ Len(file_paths) = 2
  /\ ToSet(file_paths) \subseteq RecordedFor(startFile, vector_store_id)

\* The running command is an extend of the store that the command before it,
\* an index of the same directory run to completion, created; no file
\* appeared in between.
ExtendRightAfterIndex ==
  /\ cmd = "extend"
  /\ prev.cmd = "index"
  /\ IsDir(Expand(pat))
  /\ canonical_key(pat) = canonical_key(prev.pat)
  /\ vector_store_id = prev.vs

NothingToDo ==
  /\ report = "nothing_to_do"
  /\ attempts = << >>
  /\ answered = NoAnswer
  /\ pc # "confirm"

\* C4 as stated: whatever the uploads of the index came to, the extend that
\* follows it reports nothing to do, uploads nothing and does not prompt.
C4_AsStated == ExtendRightAfterIndex => NothingToDo

\* C4: when every upload of the index succeeded, the extend that follows it
\* reports nothing to do, attempts no upload and shows no cost prompt.
C4_ExtendAfterCleanIndex ==
  (ExtendRightAfterIndex /\ prev.allOk) => NothingToDo

C4_Witness ==
  /\ ExtendRightAfterIndex /\ prev.allOk /\ pc = "done" /\ Len(file_paths) = 2

\* The running command repeats the command before it, which ran to
\* completion, with the same arguments and the same files on disk.
RerunOf(c) ==
  /\ cmd = c
  /\ prev.cmd = c
  /\ prev.tok = tok
  /\ prev.pat = pat

\* C5 as stated: the second run of an index or of an extend attempts no upload.
C5_AsStated == (RerunOf("index") \/ RerunOf("extend")) => attempts = << >>

\* C5: the second run of an extend whose first run had no failed upload
\* attempts no upload.
C5_ExtendRerunUploadsNothing ==
  (RerunOf("extend") /\ prev.allOk) => (attempts = << >> /\ answered = NoAnswer)

C5_Witness ==
  /\ RerunOf("extend") /\ prev.allOk /\ pc = "done"
  /\ RecordedFor(file, vector_store_id) # {}

\* C6: no step removes a store from files_per_vs or a path from a store's
\* recorded paths.
C6_FilesPerVsOnlyGrows ==
  [][ \A s \in DOMAIN FilesPerVsOf(file) :
        /\ s \in DOMAIN FilesPerVsOf(file')
        /\ RecordedFor(file, s) \subseteq RecordedFor(file', s) ]_vars

C6_Witness ==
  /\ pc = "done" /\ cmd = "extend" /\ Len(indexed_success) = 1
  /\ Cardinality(RecordedFor(startFile, vector_store_id)) = 1
  /\ Cardinality(RecordedFor(file, vector_store_id)) = 2

\* C7: once an index or extend has recorded its batch, the paths recorded
\* for its store are those recorded when it started together with exactly
\* the paths whose upload returned successfully.
C7_OnlySuccessfulUploadsRecorded ==
  (cmd \in { "index", "extend" } /\ pc \in { "save", "mainsave", "done" }
     /\ vector_store_id # None)
  => RecordedFor(file, vector_store_id)
       = RecordedFor(startFile, vector_store_id) \cup { Abspath(p) : p \in opOk }

C7_Witness ==
  /\ Completed /\ cmd = "index" /\ Len(attempts) = 2 /\ Cardinality(opOk) = 1
  /\ RecordedFor(file, vector_store_id) = opOk

\* The upload loop of the running command has been entered.
LoopEntered ==
  /\ cmd \in { "index", "extend" }
  /\ AnsweredYes
  /\ pc \in { "upload", "record", "save", "mainsave", "done" }
  /\ report # "create_failed"

\* C8: the files attempted so far are the first files of the batch, in
\* order, each once; once the loop is left every file of the batch has been
\* attempted, and the command ends normally with exit status 0.
C8_FailuresDoNotAbortTheBatch ==
  LoopEntered =>
    /\ Len(attempts) <= Len(batch)
    /\ \A i \in 1..Len(attempts) : attempts[i] = batch[i]
    /\ (pc # "upload" => attempts = batch)
    /\ (pc = "done" => exitStatus = 0 /\ report = "done")

C8_Witness ==
  /\ LoopEntered /\ pc = "done" /\ Len(batch) = 2 /\ opOk = { batch[2] }

\* C9: while the cache holds no session, "auto" does not resolve (an ask
\* auto fails); when an index has run to completion, "auto" resolves to the
\* store that index created, also for the ask that comes next.
C9_AutoResolvesToCreatedStore ==
  /\ (DOMAIN SessionsOf(file) = {}
        => resolve_vector_store_id(file, "auto") = NotFound)
  /\ ((cmd = "ask" /\ tok = "auto" /\ pc = "done" /\ DOMAIN SessionsOf(startFile) = {})
        => resolved = NotFound /\ exitStatus = 1)
  /\ ((cmd = "index" /\ Completed)
        => resolve_vector_store_id(file, "auto") = VsName(nStores))
  /\ ((cmd = "ask" /\ tok = "auto" /\ prev.cmd = "index" /\ pc = "done")
        => resolved = prev.vs)

C9_Witness ==
  /\ cmd = "ask" /\ tok = "auto" /\ prev.cmd = "index" /\ pc = "done"
  /\ resolved = VsName(2)

\* C10: between commands, last is the store of the most recent index or
\* extend that ran to completion, also when that extend had nothing to upload.
C10_LastIsStoreOfLatestIndexOrExtend ==
  pc \in { "idle", "done" } => LastOf(file) = lastTouched

C10_Witness ==
  /\ pc = "done" /\ cmd = "extend" /\ report = "nothing_to_do"
  /\ LastOf(startFile) # vector_store_id
  /\ LastOf(file) = vector_store_id

\* C11: ask, chat and list never write the cache file, whether the target
\* resolves or not; neither does an extend whose session key does not resolve.
C11_QueriesLeaveTheCacheAlone ==
  /\ (cmd \in { "ask", "chat", "list" } => file = startFile)
  /\ ((cmd = "extend" /\ resolved = NotFound) => file = startFile)

C11_Witness ==
  /\ cmd = "chat" /\ pc = "done" /\ tok = "~/docs" /\ resolved = VsName(1)
  /\ LastOf(file) = VsName(2)

\* The store-identifier prefix "vs_" on the tokens of the model.
HasStorePrefix(t) == t \in { "vs_1", "vs_2", "vs_3", "vs_4", "vs_notes.md" }

\* resolve as the contract words it, on the document the command found.
ResolveAsSpecified(f, t) ==
  IF t = "auto"
    THEN IF LastOf(f) = None THEN NotFound ELSE LastOf(f)
    ELSE IF HasStorePrefix(t)
           THEN t
           ELSE IF canonical_key(t) \in DOMAIN SessionsOf(f)
                  THEN SessionsOf(f)[canonical_key(t)]
                  ELSE NotFound

\* C12: what extend, ask and chat get from resolve is last for "auto"
\* (NotFound when absent), the token itself when it starts with vs_, and
\* otherwise the session cached under the canonical key (NotFound when none).
C12_ResolveFollowsItsContract ==
  (cmd \in { "extend", "ask", "chat" } /\ pc # "idle")
    => resolved = ResolveAsSpecified(startFile, tok)

C12_Witness ==
  /\ cmd = "ask" /\ pc = "done" /\ tok = "vs_1" /\ resolved = "vs_1"
  /\ startFile.kind = "missing"

\* The key under which the running index or extend records its session.
SessionKey == IF cmd = "index" THEN canonical_key(pat) ELSE canonical_key(tok)

\* What a step that records a session does to the cache file.
RecordSessionStep ==
  pc \in { "save", "mainsave" } =>
    /\ DOMAIN SessionsOf(file') = DOMAIN SessionsOf(file) \cup { SessionKey }
    /\ \A k \in DOMAIN SessionsOf(file') :
         SessionsOf(file')[k] =
           IF k = SessionKey THEN vector_store_id ELSE SessionsOf(file)[k]
    /\ LastOf(file') = vector_store_id
    /\ FilesPerVsOf(file') = FilesPerVsOf(file)
    /\ ((pc = "mainsave" /\ cmd = "index") => file' = file)

\* C13: a step that records a session maps the key to the store, replacing
\* what the key had, sets last to the store and leaves every other session
\* and files_per_vs as they were; recording the same pair a second time in
\* a row (main after index_path_or_glob) leaves the document unchanged.
C13_RecordSessionIsAnUpsert == [][RecordSessionStep]_vars

C13_Witness ==
  /\ pc = "done" /\ cmd = "index"
  /\ SessionKey \in DOMAIN SessionsOf(startFile)
  /\ SessionsOf(startFile)[SessionKey] = VsName(1)
  /\ SessionsOf(file)[SessionKey] = VsName(2)

\* Every store that a session names and that received a successful upload
\* has an entry in files_per_vs.
UploadedStoresHaveEntries(f, uploaded) ==
  \A k \in DOMAIN SessionsOf(f) :
    SessionsOf(f)[k] \in uploaded => SessionsOf(f)[k] \in DOMAIN FilesPerVsOf(f)

\* A step that writes the cache file, or ends a command, leaves a document
\* in which the uploaded stores have their entries.
WriteKeepsEntries ==
  (file' # file \/ pc' \in { "idle", "done" })
    => UploadedStoresHaveEntries(file', everOk')

NothingCollected ==
  /\ cmd \in { "index", "extend" }
  /\ pc # "idle"
  /\ (cmd = "extend" => resolved # NotFound)
  /\ \A paths \in glob_results(pat, disk) :
       collect_supported_files(paths).file_paths = << >>

\* The session key of the running extend does not resolve.
KeyUnresolved == cmd = "extend" /\ pc # "idle" /\ resolved = NotFound

\* C19: an index or extend that collected no supported file, and an extend
\* whose session key does not resolve, has ended with an error without a
\* cost prompt, a store creation or an upload attempt, and the cache file,
\* last included, is what it was when the command started.
C19_EarlyErrorsTouchNothing ==
  (NothingCollected \/ KeyUnresolved) =>
    /\ pc = "done"
    /\ exitStatus = 1
    /\ answered = NoAnswer
    /\ opCreates = 0
    /\ attempts = << >>
    /\ file = startFile

C19_Witness ==
  /\ NothingCollected /\ cmd = "extend" /\ resolved = VsName(1)
  /\ LastOf(file) = VsName(2)

\* ------------------------------------------------ cache.py called directly
\* The absolute form of a path, with the working directory /home/u.
AbsoluteForm(p) ==
  CASE p = "docs/a.md" -> "/home/u/docs/a.md"
    [] p = "docs/B.ORG" -> "/home/u/docs/B.ORG"
    [] p = "vs_notes.md" -> "/home/u/vs_notes.md"
    [] OTHER -> p

NoDuplicates(seq) == \A i, j \in DOMAIN seq : i # j => seq[i] # seq[j]

\* C14: after record_uploaded(S, F) the set recorded for S is the previous
\* set united with the absolute forms of F, the stored list has no
\* duplicates, the same call again changes nothing, and two calls on S give
\* the same document in either order.
C14_RecordUploadedIsAUnion ==
  /\ (cmd = "add_indexed_files" /\ report = "ok") =>
       /\ vector_store_id \in DOMAIN FilesPerVsOf(file)
       /\ RecordedFor(file, vector_store_id)
            = RecordedFor(startFile, vector_store_id)
                \cup { AbsoluteForm(p) : p \in ToSet(batch) }
       /\ NoDuplicates(FilesPerVsOf(file)[vector_store_id])
       /\ add_indexed_files(file, vector_store_id, batch) = file
  /\ ~load_raises(file) =>
       \A s \in StoreIds, F1, F2 \in FileLists :
         add_indexed_files(add_indexed_files(file, s, F1), s, F2)
           = add_indexed_files(add_indexed_files(file, s, F2), s, F1)

C14_Witness ==
  /\ cmd = "add_indexed_files" /\ report = "ok"
  /\ batch = << "docs/a.md", "/home/u/docs/a.md" >>
  /\ RecordedFor(startFile, vector_store_id) = { "/home/u/docs/B.ORG" }
  /\ FilesPerVsOf(file)[vector_store_id] = << "/home/u/docs/B.ORG", "/home/u/docs/a.md" >>

\* The sessions of a legacy object: every key but the last-pointer key.
LegacySessions(flat) == [ k \in (DOMAIN flat) \ { "_last" } |-> flat[k] ]

\* C15 (as stated): loading a legacy flat file gives every session key other
\* than the last-pointer key with its legacy value, last is the legacy last
\* pointer and files_per_vs is empty; the next mutation writes the current
\* shape with those sessions intact.
C15_AsStated ==
  /\ (cmd = "load_cache" /\ file.kind = "legacy") =>
       /\ report = "ok"
       /\ loaded.sessions = LegacySessions(file.flat)
       /\ loaded.last = LastOf(file)
       /\ loaded.files_per_vs = << >>
  /\ (cmd \in { "save_vector_store_id_for_key", "add_indexed_files" }
        /\ startFile.kind = "legacy") =>
       /\ file.kind = "doc"
       /\ \A k \in DOMAIN LegacySessions(startFile.flat) :
            k # tok => /\ k \in DOMAIN file.sessions
                       /\ file.sessions[k] = startFile.flat[k]

\* A document that holds one session and nothing else.
OnlySession(key, vs_id) ==
  [ kind |-> "doc", sessions |-> (key :> vs_id), files_per_vs |-> << >>, last |-> vs_id ]

\* A document that holds the paths of one store and nothing else.
OnlyUploaded(vs_id, files) ==
  [ kind |-> "doc", sessions |-> << >>,
    files_per_vs |-> (vs_id :> Sorted({ AbsoluteForm(p) : p \in ToSet(files) })),
    last |-> None ]

\* C16: loading a missing or syntactically invalid file gives the empty
\* cache without raising, and a mutation on such a file succeeds and writes
\* a document that contains exactly that mutation.
C16_MissingOrInvalidIsEmpty ==
  /\ (cmd = "load_cache" /\ file.kind \in { "missing", "invalid" }) =>
       /\ report = "ok"
       /\ loaded = [ sessions |-> << >>, files_per_vs |-> << >>, last |-> None ]
  /\ (cmd = "save_vector_store_id_for_key" /\ startFile.kind \in { "missing", "invalid" }) =>
       /\ report = "ok"
       /\ file = OnlySession(tok, vector_store_id)
  /\ (cmd = "add_indexed_files" /\ startFile.kind \in { "missing", "invalid" }) =>
       /\ report = "ok"
       /\ file = OnlyUploaded(vector_store_id, batch)

C16_Witness ==
  /\ cmd = "save_vector_store_id_for_key" /\ startFile.kind = "invalid"
  /\ file = OnlySession("_drafts/*.md", "vs_2")

\* C17 (as stated): whatever the cache file contains, no call raises, and a
\* file that is not a cache document loads as the empty cache.
C17_AsStated ==
  /\ cmd # "none" => report = "ok"
  /\ (cmd = "load_cache" /\ file.kind \notin { "doc", "legacy" }) =>
       loaded = [ sessions |-> << >>, files_per_vs |-> << >>, last |-> None ]

\* -------------------------------------------------- two processes at once
\* The update of the call op is in the document f.
UpdatePresent(op, f) ==
  IF op.kind = "save_vector_store_id_for_key"
    THEN /\ op.key \in DOMAIN SessionsOf(f)
         /\ SessionsOf(f)[op.key] = op.vs
    ELSE { AbsoluteForm(q) : q \in ToSet(op.files) } \subseteq RecordedFor(f, op.vs)

\* Two calls that set the same session key to different stores.
SameKey(o1, o2) ==
  /\ o1.kind = "save_vector_store_id_for_key"
  /\ o2.kind = "save_vector_store_id_for_key"
  /\ o1.key = o2.key
  /\ o1.vs # o2.vs

BothDone == \A p \in Procs : procs[p].pc = "done"

\* C20: when the two calls did not interleave, the final document holds
\* the update of both (the later one where both set the same session key);
\* when they interleaved, the final document is the later writer's alone:
\* its update applied to what it had loaded.
C20_LostUpdateOnlyWhenInterleaved ==
  (DOMAIN procs = Procs /\ BothDone) =>
    /\ ~interleaved =>
         /\ UpdatePresent(procs[lastTouched].op, file)
         /\ ~SameKey(procs[1].op, procs[2].op)
              => UpdatePresent(procs[Other(lastTouched)].op, file)
    /\ interleaved => file = apply_op(procs[lastTouched].op, procs[lastTouched].snap)

C20_Witness ==
  /\ DOMAIN procs = Procs /\ BothDone /\ interleaved
  /\ lastTouched = 2
  /\ procs[1].op.kind = "add_indexed_files"
  /\ procs[2].op.kind = "save_vector_store_id_for_key"
  /\ UpdatePresent(procs[2].op, file)
  /\ ~UpdatePresent(procs[1].op, file)

\* A complete document: the one before the first call, or one that a call
\* wrote in full.
CompleteDocument(f) == f.kind \in { "missing", "doc" }

\* C21 (as stated): the cache file holds a complete document at every
\* moment, and so does what a process loaded, also while another process is
\* writing or was killed during its write.
C21_AsStated ==
  /\ CompleteDocument(file)
  /\ \A p \in DOMAIN procs : procs[p].pc # "start" => CompleteDocument(procs[p].snap)

\* ------------------------------------------------ the upload loop in steps
\* C22: between two upload attempts and after the batch no temporary
\* directory exists, whichever way the attempt ended, and at most one
\* exists at any time.
C22_TemporaryDirectoriesAreRemoved ==
  /\ pc \in { "prepare", "after_loop" } => tmp_dirs = {}
  /\ Cardinality(tmp_dirs) <= 1

C22_Witness ==
  /\ pc = "after_loop" /\ nTmp = 2 /\ tmp_dirs = {}
  /\ report = "bad_request"
  /\ indexed_success = << "/home/u/docs/B.ORG" >>

\* ------------------------------------------------------------------- chat
\* user, assistant, user, assistant, ... of even length.
Alternating(hist) ==
  /\ Len(hist) % 2 = 0
  /\ \A i \in DOMAIN hist :
       hist[i].role = IF i % 2 = 1 THEN "user" ELSE "assistant"

\* The lines that are empty once stripped, and the in-band commands.
EmptyLines == { "", "  " }

EndCommands == { "/exit", "/QUIT", "/sair" }

ClearCommands == { "/clear" }

\* The text of a line without the blanks around it.
Stripped(raw) == IF raw = "hello " THEN "hello" ELSE raw

\* One pass of the chat loop, as the transcript and the request see it.
ChatStep ==
  pc = "chat" =>
    /\ Alternating(history')
    /\ lastRound'.sent # << >> =>
         /\ lastRound'.sent
              = history \o << [ role |-> "user", content |-> Stripped(lastRound'.input) ] >>
         /\ lastRound'.input \notin
              EmptyLines \cup EndCommands \cup ClearCommands \cup { "<EOF>" }
    /\ lastRound'.input \in ClearCommands => history' = << >>
    /\ \A i \in DOMAIN history' :
         history'[i].role = "user" =>
           history'[i].content \notin
             EmptyLines \cup EndCommands \cup ClearCommands \cup { "/quit" }

\* C23: the transcript always alternates user, assistant and has even
\* length; a round sends the transcript followed by the new user turn;
\* /clear empties the transcript; an empty line or a command is neither
\* sent nor appended.
C23_TranscriptAlternates == [][ChatStep]_vars

C23_Witness ==
  /\ pc = "chat" /\ Len(history) = 4
  /\ lastRound.outcome = "ok" /\ Len(lastRound.sent) = 3
  /\ lastRound.sent[3] = [ role |-> "user", content |-> "hello" ]

\* One pass of the chat loop, as the failure handling sees it.
FailedRoundStep ==
  pc = "chat" =>
    /\ lastRound'.outcome \in { "bad_request", "error" } =>
         /\ history' = history
         /\ pc' = "chat"
    /\ pc' # "chat" => lastRound'.input \in EndCommands \cup { "<EOF>" }
    /\ lastRound'.input \in EndCommands \cup { "<EOF>" } => pc' = "done"

\* C24: a round whose remote call fails leaves the transcript as it was and
\* the loop goes on reading; the loop ends only on /exit, /quit, /sair or on
\* end of input or an interrupt.
C24_FailedRoundChangesNothing == [][FailedRoundStep]_vars

C24_Witness ==
  /\ pc = "chat" /\ Len(history) = 2
  /\ lastRound.outcome = "bad_request" /\ Len(lastRound.sent) = 3

\* C25 (as stated): ask and chat with a target that resolves reach the
\* remote answer call.
C25_AsStated ==
  (cmd \in { "ask", "chat" } /\ pc # "idle" /\ resolved # NotFound)
    => report \in { "none", "answered", "remote_error", "chat_ended" }

\* ---------------------------------------------------------- canonical_key
\* C26 (as stated): the key of a key is the key itself, for directories,
\* globs and strings that refer to HOME or to environment variables.
C26_AsStated ==
  cmd = "canonical_key" => canonical_key(resolved) = resolved

\* ---------------------------------------------------------------- collect
\* The paths of the model whose extension is in the allow-list when case
\* is ignored.
HasAllowedExtension(q) ==
  q \in { "/home/u/docs/a.md", "docs/a.md", "/home/u/docs/B.ORG", "docs/B.ORG",
          "/home/u/vs_notes.md", "vs_notes.md" }

IsAbsolute(q) ==
  q \in { "/home/u/docs/a.md", "/home/u/docs/B.ORG", "/home/u/docs/c.png",
          "/home/u/vs_notes.md" }

\* The running index or extend has collected its files.
HasCollected ==
  /\ cmd \in { "index", "extend" }
  /\ pc # "idle"
  /\ (cmd = "extend" => resolved # NotFound)

\* C27: whatever the order in which glob lists the matches, a matched file
\* is in the supported output exactly when its extension is in the
\* allow-list, case ignored, and is reported as skipped otherwise; the
\* supported output holds absolute paths only, without duplicates, and is
\* the list the command got.
C27_CollectPartitionsTheMatches ==
  HasCollected =>
    \A paths \in glob_results(pat, disk) :
      LET c == collect_supported_files(paths)
      IN /\ c.file_paths = file_paths
         /\ \A q \in ToSet(paths) :
              /\ HasAllowedExtension(q) <=> AbsoluteForm(q) \in ToSet(c.file_paths)
              /\ ~HasAllowedExtension(q) <=> q \in ToSet(c.skipped)
         /\ ToSet(c.file_paths) \subseteq { AbsoluteForm(q) : q \in ToSet(paths) }
         /\ \A q \in ToSet(c.file_paths) : IsAbsolute(q)
         /\ NoDuplicates(c.file_paths)

C27_Witness ==
  /\ HasCollected /\ pat = "docs"
  /\ disk = { "/home/u/docs/a.md", "/home/u/docs/B.ORG", "/home/u/docs/c.png" }
  /\ file_paths = << "/home/u/docs/B.ORG", "/home/u/docs/a.md" >>

\* --------------------------------------------------------------- estimate
\* The sum of f over the set S.
RECURSIVE SumOver(_, _)
SumOver(S, f) ==
  IF S = {} THEN 0
  ELSE LET x == CHOOSE y \in S : TRUE IN f[x] + SumOver(S \ { x }, f)

\* C28: total_chars is the sum of the character counts of the files that
\* can be read, a file that cannot be read adds 0, and est_tokens is
\* total_chars divided by 4 rounded down; two files of 500 characters give
\* 1000 and 250.
C28_EstimateSumsReadableFiles ==
  cmd = "estimate_cost_for_files" =>
    /\ estimate.total_chars = SumOver(ToSet(batch) \ chars.unreadable, chars.size)
    /\ 4 * estimate.est_tokens <= estimate.total_chars
    /\ estimate.total_chars < 4 * estimate.est_tokens + 4
    /\ (Len(batch) = 2 /\ chars.unreadable = {}
          /\ \A q \in ToSet(batch) : chars.size[q] = 500)
         => estimate = [ total_chars |-> 1000, est_tokens |-> 250 ]

C28_Witness ==
  /\ cmd = "estimate_cost_for_files" /\ Len(batch) = 2
  /\ chars.unreadable = { "/home/u/docs/a.md" }
  /\ estimate = [ total_chars |-> 3, est_tokens |-> 0 ]

\* ------------------------------------------------------ uploads at most once
\* An upload step: a path that is uploaded successfully was not uploaded to
\* that store before.
UploadsOnce ==
  (pc = "upload" /\ Len(indexed_success') > Len(indexed_success))
    => << vector_store_id, batch[idx] >> \notin everUploaded

\* The list the upload loop works on has no path twice, holds absolute
\* paths, and in an extend none that files_per_vs has for the store.
BatchIsNew ==
  pc \in { "confirm", "create", "upload" } =>
    /\ NoDuplicates(batch)
    /\ \A q \in ToSet(batch) : IsAbsolute(q)
    /\ cmd = "extend" => ToSet(batch) \cap RecordedFor(file, vector_store_id) = {}

\* C29: starting from an empty cache, with index and extend run one at a
\* time, no pair of store and absolute path is uploaded successfully
\* twice; extend uploads no path files_per_vs has for the store and no
\* batch holds a path twice.
C29_EachPairUploadedAtMostOnce == [][UploadsOnce /\ BatchIsNew']_vars

C29_Witness ==
  /\ cmd = "extend" /\ pc = "done" /\ report = "done"
  /\ file_paths = << "/home/u/docs/B.ORG", "/home/u/docs/a.md" >>
  /\ attempts = << "/home/u/docs/a.md" >>
  /\ everUploaded = { << vector_store_id, "/home/u/docs/B.ORG" >>,
                      << vector_store_id, "/home/u/docs/a.md" >> }

\* C30 (as stated): the extend command never creates a session: whatever
\* its first argument is (a path-or-glob key, "auto", a raw store
\* identifier), the keys of sessions after the command are the keys before it.
C30_AsStated ==
  (cmd = "extend" /\ pc = "done" /\ exitStatus = 0) =>
    DOMAIN SessionsOf(file) = DOMAIN SessionsOf(startFile)

\* C31 (as stated): index then resolve round-trips: once `index X` has
\* completed, and before any later command, resolve(X) is the store that
\* index created, also when X is named "auto" or begins with "vs_".
C31_AsStated ==
  (cmd = "index" /\ pc = "done" /\ report = "done") =>
    resolve_vector_store_id(file, pat) = vector_store_id

\* C32: from the empty cache and with commands run one at a time, whatever
\* is on disk has last absent or equal to the store of some session; when
\* there are sessions last is present, and list marks at least one of them
\* as last used.
C32_LastNamesASession ==
  /\ LastOf(file) # None =>
       \E key \in DOMAIN SessionsOf(file) : SessionsOf(file)[key] = LastOf(file)
  /\ DOMAIN SessionsOf(file) # {} => LastOf(file) # None
  /\ (cmd = "list" /\ pc = "done" /\ DOMAIN SessionsOf(file) # {})
       => list_vector_stores(file) # {}

\* list runs on a cache whose sessions name two stores: the marker is on
\* the session of the later index only.
C32_Witness ==
  /\ cmd = "list" /\ pc = "done"
  /\ DOMAIN SessionsOf(file) = { "/home/u/docs", "docs/*.md" }
  /\ SessionsOf(file)["/home/u/docs"] = "vs_2"
  /\ SessionsOf(file)["docs/*.md"] = "vs_1"
  /\ LastOf(file) = "vs_2"
  /\ list_vector_stores(file) = { "/home/u/docs" }

====
